---- MODULE Spec2Model ----
(***************************************************************************)
(* Model of the tool-calling chat client (src/client.py) and of the        *)
(* sentiment tool server it launches (src/server.py).                      *)
(*                                                                         *)
(* Spec      : the program as main() runs it: construction, connection,    *)
(*             chat loop, top-level handler, cleanup.                      *)
(* SpecQuery : the chat loop of a connected client, with the client's      *)
(*             function_declarations attribute taken as an input of the    *)
(*             run (no method of MCPClient assigns it), together with the  *)
(*             tool server that call_tool reaches.                         *)
(* SpecSchema: convert_mcp_tools_to_gemini applied to a listed tool whose  *)
(*             input schema ranges over the schemas of a bounded depth.    *)
(* SpecTool  : one invocation of analyze_crypto_sentiment by a call_tool   *)
(*             request, with the crypto_names argument ranging over names, *)
(*             separators and the empty string.                            *)
(***************************************************************************)
EXTENDS Integers, Sequences, FiniteSets, TLC

(* ------------------------------ bounds -------------------------------- *)
\* parts the model may emit, over all its responses, while one query runs
PartBudget == 3
\* function calls the model may emit, over all its responses, while one query runs
CallBudget == 2
\* nesting depth of the input schemas below the top-level schema
SchemaDepth == 2

(* ------------------------- program constants -------------------------- *)
max_attempts == 10
HTTP_OK == 200

(* ------------------------------ values -------------------------------- *)
\* A text is a sequence of characters, so that join and strip are computed.
NL == "\n"
Whitespace == {" ", NL}
TextA == <<"a">>
TextB == <<" ", "b">>
Texts == {TextA, TextB}
NoText == <<>>

AnalyzeTool == "analyze_crypto_sentiment"
OtherTool == "other_tool"
ToolNames == {AnalyzeTool, OtherTool}
\* crypto_names arguments, as character sequences: "B, E"
NamesBE == <<"B", ",", " ", "E">>
\* crypto_names arguments a caller of the tool may send: "", ",", " ", ", ",
\* "B", "B, E"
CryptoArgs == {<<>>, <<",">>, <<" ">>, <<",", " ">>, <<"B">>, NamesBE}
NoCall == [name |-> "", args |-> <<>>]
Calls == {[name |-> AnalyzeTool, args |-> NamesBE],
          [name |-> OtherTool, args |-> <<"x">>]}

\* google.genai Part: a function call, a text, or neither
Parts ==
  {[function_call |-> c, text |-> NoText] : c \in Calls}
    \cup {[function_call |-> NoCall, text |-> t] : t \in Texts \cup {NoText}}

\* self.function_declarations: absent until something assigns it
Unset == "<no attribute>"
Declared == "declarations"

\* lines the user can type, with what str.strip() and str.lower() make of them
Lines == {"quit", " Quit ", "btc", " eth"}
Strip(line) ==
  CASE line = " Quit " -> "Quit"
    [] line = " eth" -> "eth"
    [] OTHER -> line
Lower(word) ==
  CASE word = "Quit" -> "quit"
    [] word = "COMPLETED" -> "completed"
    [] word = "Failed" -> "failed"
    [] OTHER -> word

(* ----------------------------- variables ------------------------------ *)
VARIABLES
  env,                   \* argv and environment the processes start with
  main,                  \* position in main() / chat_loop()
  function_declarations, \* the attribute process_query reads
  exit_stack,            \* contexts entered on self.exit_stack
  released,              \* contexts exited, in order
  cleanups,              \* calls of cleanup()
  server,                \* the launched server process
  error_box,             \* the error or warning box printed last, if any
  exc,                   \* the exception propagating or handled in main
  pq,                    \* position in process_query
  query,                 \* the stripped input line
  conversation, final_text, function_calls, new_parts, idx,
  requests,              \* generate_content calls issued for this query
  emitted,               \* parts the model emitted for this query
  response,              \* value returned by process_query
  modelCalls,            \* history: function calls the model emitted, in order
  modelTexts,            \* history: texts the model emitted, in order
  outcomes,              \* history: how each call_tool ended
  issued,                \* history: call_tool requests issued for this query
  left_behind,           \* history: turns and texts the query before had left
                         \* when this one was entered (kept until its first
                         \* model request)
  tool,                  \* position in analyze_crypto_sentiment
  crypto_names, job_id, attempt, current_status, tweets, tool_return,
  io,                    \* HTTP requests and sleeps of this invocation
  statusLog,             \* how each status poll was classified
  mcp_tools,             \* the tools handed to convert_mcp_tools_to_gemini
  gemini_tools,          \* what convert_mcp_tools_to_gemini returned
  listed,                \* history: the tools as they were listed
  convert                \* position in convert_mcp_tools_to_gemini

clientVars == <<env, main, function_declarations, exit_stack, released,
                cleanups, server, error_box, exc>>
history == <<modelCalls, modelTexts, outcomes, issued, left_behind>>
queryVars == <<pq, query, conversation, final_text, function_calls, new_parts,
               idx, requests, emitted, response, history>>
toolVars == <<tool, crypto_names, job_id, attempt, current_status, tweets,
              tool_return, io, statusLog>>
schemaVars == <<mcp_tools, gemini_tools, listed, convert>>
vars == <<clientVars, queryVars, toolVars, schemaVars>>

(* --------------------------- pure functions --------------------------- *)
RECURSIVE Join(_, _)
\* sep.join(ts)
Join(sep, ts) ==
  IF ts = <<>> THEN <<>>
  ELSE IF Len(ts) = 1 THEN ts[1]
  ELSE ts[1] \o sep \o Join(sep, Tail(ts))

RECURSIVE LStrip(_)
LStrip(s) == IF s # <<>> /\ Head(s) \in Whitespace THEN LStrip(Tail(s)) ELSE s

RECURSIVE RStrip(_)
RStrip(s) ==
  IF s # <<>> /\ s[Len(s)] \in Whitespace
  THEN RStrip(SubSeq(s, 1, Len(s) - 1))
  ELSE s

\* str.strip()
StripText(s) == RStrip(LStrip(s))

\* process_query's return expression
FinalAnswerLast(texts) ==
  IF texts = <<>> THEN <<>> ELSE StripText(texts[Len(texts)])
FinalAnswer(texts) == StripText(Join(<<NL>>, texts))

RECURSIVE ScanParts(_, _)
\* the inner for loop over candidate.content.parts; acc = [calls, parts, texts]
ScanParts(parts, acc) ==
  IF parts = <<>> THEN acc
  ELSE LET part == Head(parts) IN
    ScanParts(Tail(parts),
      IF part.function_call # NoCall
      THEN [acc EXCEPT !.calls = Append(@, part.function_call),
                       !.parts = Append(@, part)]
      ELSE IF part.text # NoText
      THEN [acc EXCEPT !.texts = Append(@, part.text)]
      ELSE acc)

RECURSIVE ScanCandidates(_, _)
\* the outer for loop over response.candidates (a candidate is its parts)
ScanCandidates(candidates, acc) ==
  IF candidates = <<>> THEN acc
  ELSE ScanCandidates(Tail(candidates),
         IF Head(candidates) = <<>> THEN acc
         ELSE ScanParts(Head(candidates), acc))

Scan(candidates, texts) ==
  ScanCandidates(candidates, [calls |-> <<>>, parts |-> <<>>, texts |-> texts])

\* if not function_calls: break
LoopBreaks(calls) == calls = <<>>

\* the Content built from the user's query
UserContent(q) == [role |-> "user", text |-> q]

StartConversationKeepsTurns(old, q) == Append(old, UserContent(q))
\* conversation = [user_prompt_content]: a new list for every call
StartConversation(old, q) == <<UserContent(q)>>

\* call_tool's outcome wrapped for the model
FunctionResponseAlwaysResult(outcome) ==
  [key |-> "result", value |-> outcome.value]
FunctionResponse(outcome) ==
  IF outcome.raised
  THEN [key |-> "error", value |-> outcome.value]
  ELSE [key |-> "result", value |-> outcome.value]

\* the tool-role Content for one call
ToolContentFirstName(calls, call, outcome) ==
  [role |-> "tool", name |-> calls[1].name,
   function_response |-> FunctionResponse(outcome)]
ToolContent(calls, call, outcome) ==
  [role |-> "tool", name |-> call.name,
   function_response |-> FunctionResponse(outcome)]

\* the two appends that end one iteration of the dispatch loop
AppendPair(conv, call_part, tool_content) ==
  Append(Append(conv, call_part), tool_content)

\* responses the model may give with n parts left of its budget: one or two
\* candidates, the second possibly without parts
RECURSIVE PartSeqs(_)
PartSeqs(n) ==
  IF n = 0 THEN {<<>>}
  ELSE LET shorter == PartSeqs(n - 1) IN
    shorter \cup {Append(s, p) : s \in {t \in shorter : Len(t) = n - 1}, p \in Parts}
Responses(n) ==
  {<<s>> : s \in PartSeqs(n)}
    \cup UNION {{<<SubSeq(s, 1, k), SubSeq(s, k + 1, Len(s))>> : k \in 0..Len(s)} :
                 s \in PartSeqs(n)}

\* what the model sent, read off its parts in order (history only)
CallsOf(parts) ==
  LET at == {i \in 1..Len(parts) : parts[i].function_call # NoCall}
      pick[i \in 0..Len(parts)] ==
        IF i = 0 THEN <<>>
        ELSE IF i \in at THEN Append(pick[i - 1], parts[i].function_call)
        ELSE pick[i - 1]
  IN pick[Len(parts)]
TextsOf(parts) ==
  LET pick[i \in 0..Len(parts)] ==
        IF i = 0 THEN <<>>
        ELSE IF parts[i].function_call = NoCall /\ parts[i].text # NoText
        THEN Append(pick[i - 1], parts[i].text)
        ELSE pick[i - 1]
  IN pick[Len(parts)]

(* ------------------------- chat_loop, client side --------------------- *)
Connected == <<"stdio_client", "ClientSession">>
ToolIdle ==
  /\ tool = "idle" /\ crypto_names = <<>> /\ job_id = "" /\ attempt = 0
  /\ current_status = "" /\ tweets = <<>> /\ tool_return = ""
  /\ io = <<>> /\ statusLog = <<>>
QueryIdle ==
  /\ pq = "idle" /\ query = "" /\ conversation = <<>> /\ final_text = <<>>
  /\ function_calls = <<>> /\ new_parts = <<>> /\ idx = 0 /\ requests = 0
  /\ emitted = 0 /\ response = <<>>
  /\ modelCalls = <<>> /\ modelTexts = <<>> /\ outcomes = <<>> /\ issued = 0
  /\ left_behind = 0

\* input() returned a line that is not "quit": process_query starts
ReadQuery ==
  /\ main = "chat"
  /\ \E line \in Lines :
       /\ Lower(Strip(line)) # "quit"
       /\ query' = Strip(line)
       /\ conversation' = StartConversation(conversation, Strip(line))
  /\ final_text' = <<>>
  /\ pq' = "request"
  /\ main' = "in_query"
  /\ function_calls' = <<>> /\ new_parts' = <<>> /\ idx' = 0
  /\ response' = <<>>
  /\ requests' = 0
  /\ emitted' = 0
  /\ modelCalls' = <<>> /\ modelTexts' = <<>> /\ outcomes' = <<>> /\ issued' = 0
  /\ left_behind' = Len(conversation) + Len(final_text)
  /\ UNCHANGED <<env, function_declarations, exit_stack, released, cleanups,
                 server, error_box, exc>>
  /\ UNCHANGED toolVars
  /\ UNCHANGED schemaVars

\* input() returned "quit" in any case and padding: break
ReadQuit ==
  /\ main = "chat"
  /\ \E line \in Lines :
       /\ Lower(Strip(line)) = "quit"
       /\ query' = Strip(line)
  /\ main' = "after_chat"
  /\ UNCHANGED <<env, function_declarations, exit_stack, released, cleanups,
                 server, error_box, exc>>
  /\ UNCHANGED <<pq, conversation, final_text, function_calls, new_parts, idx,
                 requests, emitted, response, history>>
  /\ UNCHANGED toolVars
  /\ UNCHANGED schemaVars

\* KeyboardInterrupt while input() waits: warning box, break
ReadInterrupt ==
  /\ main = "chat"
  /\ error_box' = "Warning"
  /\ main' = "after_chat"
  /\ UNCHANGED <<env, function_declarations, exit_stack, released, cleanups,
                 server, exc>>
  /\ UNCHANGED queryVars
  /\ UNCHANGED toolVars
  /\ UNCHANGED schemaVars

\* input() raises EOFError: not caught in chat_loop
ReadEOF ==
  /\ main = "chat"
  /\ main' = "except"
  /\ exc' = "EOFError"
  /\ UNCHANGED <<env, function_declarations, exit_stack, released, cleanups,
                 server, error_box>>
  /\ UNCHANGED queryVars
  /\ UNCHANGED toolVars
  /\ UNCHANGED schemaVars

(* ---------------------------- process_query --------------------------- *)
Budget == PartBudget - emitted
\* calls dispatched so far: each left a call part and a tool turn
CallsLeft == CallBudget - (Len(conversation) - 1) \div 2

\* evaluating self.function_declarations raises AttributeError
GenerateContentAttributeError ==
  /\ pq = "request"
  /\ function_declarations = Unset
  /\ pq' = "raised"
  /\ main' = "except"
  /\ exc' = "AttributeError"
  /\ left_behind' = 0
  /\ UNCHANGED <<env, function_declarations, exit_stack, released, cleanups,
                 server, error_box>>
  /\ UNCHANGED <<query, conversation, final_text, function_calls, new_parts,
                 idx, requests, emitted, response, modelCalls, modelTexts,
                 outcomes, issued>>
  /\ UNCHANGED toolVars
  /\ UNCHANGED schemaVars

\* the model API call itself raises
GenerateContentRaises ==
  /\ pq = "request"
  /\ function_declarations # Unset
  /\ requests' = requests + 1
  /\ pq' = "raised"
  /\ main' = "except"
  /\ exc' = "APIError"
  /\ left_behind' = 0
  /\ UNCHANGED <<env, function_declarations, exit_stack, released, cleanups,
                 server, error_box>>
  /\ UNCHANGED <<query, conversation, final_text, function_calls, new_parts,
                 idx, emitted, response, modelCalls, modelTexts, outcomes,
                 issued>>
  /\ UNCHANGED toolVars
  /\ UNCHANGED schemaVars

\* a response with function calls: the dispatch loop starts
GenerateContentCalls ==
  /\ pq = "request"
  /\ function_declarations # Unset
  /\ \E candidates \in Responses(Budget) :
       LET got == Scan(candidates, final_text) IN
       /\ ~LoopBreaks(got.calls)
       /\ Len(got.calls) <= CallsLeft
       /\ function_calls' = got.calls
       /\ new_parts' = got.parts
       /\ final_text' = got.texts
       /\ emitted' = emitted + Len(Join(<<>>, candidates))
       /\ modelCalls' = modelCalls \o CallsOf(Join(<<>>, candidates))
       /\ modelTexts' = modelTexts \o TextsOf(Join(<<>>, candidates))
  /\ requests' = requests + 1
  /\ idx' = 1
  /\ pq' = "dispatch"
  /\ UNCHANGED clientVars
  /\ left_behind' = 0
  /\ UNCHANGED <<query, conversation, response, outcomes, issued>>
  /\ UNCHANGED toolVars
  /\ UNCHANGED schemaVars

\* a response without function calls: break, return, response box
GenerateContentFinal ==
  /\ pq = "request"
  /\ function_declarations # Unset
  /\ \E candidates \in Responses(Budget) :
       LET got == Scan(candidates, final_text) IN
       /\ LoopBreaks(got.calls)
       /\ function_calls' = got.calls
       /\ new_parts' = got.parts
       /\ final_text' = got.texts
       /\ response' = FinalAnswer(got.texts)
       /\ emitted' = emitted + Len(Join(<<>>, candidates))
       /\ modelCalls' = modelCalls \o CallsOf(Join(<<>>, candidates))
       /\ modelTexts' = modelTexts \o TextsOf(Join(<<>>, candidates))
  /\ requests' = requests + 1
  /\ pq' = "returned"
  /\ main' = "chat"
  /\ UNCHANGED <<env, function_declarations, exit_stack, released, cleanups,
                 server, error_box, exc>>
  /\ left_behind' = 0
  /\ UNCHANGED <<query, conversation, idx, outcomes, issued>>
  /\ UNCHANGED toolVars
  /\ UNCHANGED schemaVars

ResetTool ==
  /\ tool' = "idle" /\ crypto_names' = <<>> /\ job_id' = "" /\ attempt' = 0
  /\ current_status' = "" /\ tweets' = <<>> /\ tool_return' = ""
  /\ io' = <<>> /\ statusLog' = <<>>

MayIssueWhileInFlight(position) == position \in {"dispatch", "in_call"}
\* the for loop reaches call_tool only at the start of an iteration: the
\* await keeps it from starting the next one while a call is in flight
MayIssue(position) == position = "dispatch"

\* await self.session.call_tool(tool_name, call.args) is issued
CallTool ==
  /\ MayIssue(pq)
  /\ pq' = "in_call"
  /\ issued' = issued + 1
  /\ IF function_calls[idx].name = AnalyzeTool
     THEN /\ tool' = "begin"
          /\ crypto_names' = function_calls[idx].args
          /\ UNCHANGED <<job_id, attempt, current_status, tweets, tool_return,
                         io, statusLog>>
     ELSE UNCHANGED toolVars
  /\ UNCHANGED clientVars
  /\ UNCHANGED <<query, conversation, final_text, function_calls, new_parts,
                 idx, requests, emitted, response, modelCalls, modelTexts,
                 outcomes, left_behind>>
  /\ UNCHANGED schemaVars

\* the rest of one iteration of the dispatch loop, after call_tool ended
FinishCall(outcome) ==
  /\ conversation' =
       AppendPair(conversation, new_parts[idx],
                  ToolContent(function_calls, function_calls[idx], outcome))
  /\ idx' = idx + 1
  /\ pq' = IF idx = Len(function_calls) THEN "request" ELSE "dispatch"
  /\ outcomes' = Append(outcomes, outcome)
  /\ ResetTool
  /\ UNCHANGED clientVars
  /\ UNCHANGED <<query, final_text, function_calls, new_parts, requests,
                 emitted, response, modelCalls, modelTexts, issued,
                 left_behind>>

UnknownToolContent == "Unknown tool"

\* call_tool returns the tool's content
CallToolReturns ==
  /\ pq = "in_call"
  /\ IF function_calls[idx].name = AnalyzeTool
     THEN /\ tool = "returned"
          /\ FinishCall([raised |-> FALSE, value |-> tool_return])
     ELSE FinishCall([raised |-> FALSE, value |-> UnknownToolContent])
  /\ UNCHANGED schemaVars

\* call_tool raises (transport or protocol error). Whenever it raises while
\* the tool runs, the client goes on from the same state as when it raises
\* at once, so raising at once covers the later raises.
CallToolRaises ==
  /\ pq = "in_call"
  /\ tool \in {"idle", "begin"}
  /\ FinishCall([raised |-> TRUE, value |-> "McpError"])
  /\ UNCHANGED schemaVars

(* --------------------- analyze_crypto_sentiment ----------------------- *)
RECURSIVE SplitOn(_, _, _)
\* s.split(sep) for a one-character sep; cur is the piece being read
SplitOn(s, sep, cur) ==
  IF s = <<>> THEN <<cur>>
  ELSE IF Head(s) = sep THEN <<cur>> \o SplitOn(Tail(s), sep, <<>>)
  ELSE SplitOn(Tail(s), sep, Append(cur, Head(s)))

\* [name.strip() for name in crypto_names.split(",")]
Cryptos(names) ==
  LET pieces == SplitOn(names, ",", <<>>) IN
  [i \in 1..Len(pieces) |-> StripText(pieces[i])]

\* status words the remote service may answer, and a missing status field
StatusWords == {"pending", "done", "completed", "COMPLETED", "failed", "Failed", "error"}
MissingStatus == ""

ClassifyNoFailed(status) ==
  IF status = "completed" THEN "Done" ELSE "Pending"
\* the if / elif / else on current_status
Classify(status) ==
  IF status = "completed" THEN "Done"
  ELSE IF status \in {"failed", "error"} THEN "Failed"
  ELSE "Pending"

PollLimitPlusOne == max_attempts + 1
\* number of iterations of the polling loop
PollLimit == max_attempts

Request(op) == [op |-> op, job |-> job_id]
Slept == [op |-> "sleep", job |-> job_id]

\* the function returns text r
Return(r) ==
  /\ tool' = "returned"
  /\ tool_return' = r
ToolFrame == UNCHANGED <<clientVars, queryVars>>

\* headers, the split of crypto_names, the query string
ToolBegin ==
  /\ tool = "begin"
  /\ IF Cryptos(crypto_names) = <<>>
     THEN Return("Error: Please provide at least one cryptocurrency name")
     ELSE tool' = "create" /\ UNCHANGED tool_return
  /\ UNCHANGED <<crypto_names, job_id, attempt, current_status, tweets, io,
                 statusLog>>
  /\ ToolFrame
  /\ UNCHANGED schemaVars

\* replies to POST /api/v1/search/live/twitter
CreateReplies ==
  {[raised |-> TRUE, status |-> 0, uuid |-> ""],
   [raised |-> FALSE, status |-> 500, uuid |-> ""],
   [raised |-> FALSE, status |-> HTTP_OK, uuid |-> ""],
   [raised |-> FALSE, status |-> HTTP_OK, uuid |-> "job-1"]}

NoJobIdIgnored(uuid) == FALSE
\* if not job_id
NoJobId(uuid) == uuid = ""

\* Step 1: create the search job
CreateJob ==
  /\ tool = "create"
  /\ io' = Append(io, Request("create"))
  /\ \E reply \in CreateReplies :
       IF reply.raised
       THEN Return("Error in sentiment analysis") /\ UNCHANGED job_id
       ELSE IF reply.status # HTTP_OK
       THEN Return("Error creating search job") /\ UNCHANGED job_id
       ELSE IF NoJobId(reply.uuid)
       THEN Return("Failed to get job ID from Twitter search response")
            /\ UNCHANGED job_id
       ELSE tool' = "poll" /\ job_id' = reply.uuid /\ UNCHANGED tool_return
  /\ UNCHANGED <<crypto_names, attempt, current_status, tweets, statusLog>>
  /\ ToolFrame
  /\ UNCHANGED schemaVars

\* replies to GET .../status/{job_id}
StatusReplies ==
  {[raised |-> TRUE, status |-> 0, word |-> MissingStatus],
   [raised |-> FALSE, status |-> 500, word |-> MissingStatus]}
    \cup {[raised |-> FALSE, status |-> HTTP_OK, word |-> w] :
            w \in StatusWords \cup {MissingStatus}}

\* Step 2, one iteration of the for loop up to the sleep
PollStatus ==
  /\ tool = "poll"
  /\ attempt < PollLimit
  /\ attempt' = attempt + 1
  /\ io' = Append(io, [op |-> "status", job |-> job_id])
  /\ \E reply \in StatusReplies :
       IF reply.raised
       THEN Return("Error in sentiment analysis")
            /\ UNCHANGED <<current_status, statusLog>>
       ELSE IF reply.status # HTTP_OK
       THEN Return("Status check failed")
            /\ UNCHANGED <<current_status, statusLog>>
       ELSE /\ current_status' = Lower(reply.word)
            /\ statusLog' = Append(statusLog, Classify(current_status'))
            /\ IF Classify(current_status') = "Done"
               THEN tool' = "fetch" /\ UNCHANGED tool_return
               ELSE IF Classify(current_status') = "Failed"
               THEN Return("Search job failed")
               ELSE tool' = "sleep" /\ UNCHANGED tool_return
  /\ UNCHANGED <<crypto_names, job_id, tweets>>
  /\ ToolFrame
  /\ UNCHANGED schemaVars

\* await asyncio.sleep(5), then the next iteration or the loop's else clause
Sleep ==
  /\ tool = "sleep"
  /\ io' = Append(io, Slept)
  /\ IF attempt < PollLimit
     THEN tool' = "poll" /\ UNCHANGED tool_return
     ELSE Return("Error: Twitter search timed out")
  /\ UNCHANGED <<crypto_names, job_id, attempt, current_status, tweets,
                 statusLog>>
  /\ ToolFrame
  /\ UNCHANGED schemaVars

\* replies to GET .../result/{job_id}
ResultReplies ==
  {[raised |-> TRUE, status |-> 0, results |-> <<>>],
   [raised |-> FALSE, status |-> 500, results |-> <<>>],
   [raised |-> FALSE, status |-> HTTP_OK, results |-> <<>>],
   [raised |-> FALSE, status |-> HTTP_OK, results |-> <<"t1", "t2">>]}

\* Step 3: fetch the results
FetchResults ==
  /\ tool = "fetch"
  /\ io' = Append(io, Request("result"))
  /\ \E reply \in ResultReplies :
       IF reply.raised
       THEN Return("Error in sentiment analysis") /\ UNCHANGED tweets
       ELSE IF reply.status # HTTP_OK
       THEN Return("Error fetching results") /\ UNCHANGED tweets
       ELSE /\ tweets' = reply.results
            /\ IF reply.results = <<>>
               THEN Return("No tweets found for analysis")
               ELSE tool' = "analyze" /\ UNCHANGED tool_return
  /\ UNCHANGED <<crypto_names, job_id, attempt, current_status, statusLog>>
  /\ ToolFrame
  /\ UNCHANGED schemaVars

\* replies to POST /api/v1/search/analysis
AnalysisReplies ==
  {[raised |-> TRUE, status |-> 0, result |-> ""],
   [raised |-> FALSE, status |-> 500, result |-> ""],
   [raised |-> FALSE, status |-> HTTP_OK, result |-> ""],
   [raised |-> FALSE, status |-> HTTP_OK, result |-> "Overall sentiment: positive"]}

\* Step 4: analyze the tweets
AnalyzeSentiment ==
  /\ tool = "analyze"
  /\ io' = Append(io, Request("analysis"))
  /\ \E reply \in AnalysisReplies :
       IF reply.raised
       THEN Return("Error in sentiment analysis")
       ELSE IF reply.status # HTTP_OK
       THEN Return("Analysis failed")
       ELSE IF reply.result = ""
       THEN Return("No analysis result returned")
       ELSE Return(reply.result)
  /\ UNCHANGED <<crypto_names, job_id, attempt, current_status, tweets,
                 statusLog>>
  /\ ToolFrame
  /\ UNCHANGED schemaVars

(* -------------------------------- main -------------------------------- *)
MainFrame == UNCHANGED <<queryVars, toolVars>>

\* len(sys.argv) < 2: usage box, sys.exit(1)
MainUsage ==
  /\ main = "start"
  /\ ~env.argv
  /\ error_box' = "Error"
  /\ main' = "exited"
  /\ exc' = "SystemExit"
  /\ UNCHANGED <<env, function_declarations, exit_stack, released, cleanups,
                 server>>
  /\ MainFrame
  /\ UNCHANGED schemaVars

\* client = MCPClient(), before the try statement
Construct ==
  /\ main = "start"
  /\ env.argv
  /\ IF env.gemini
     THEN main' = "connect" /\ UNCHANGED exc
     ELSE main' = "crashed" /\ exc' = "ValueError"
  /\ UNCHANGED <<env, function_declarations, exit_stack, released, cleanups,
                 server, error_box>>
  /\ MainFrame
  /\ UNCHANGED schemaVars

ServerStartIgnoresKey(e) == "running"
\* MASA_API_KEY is read when the server module is loaded, before the FastMCP
\* instance exists and before the tool is registered
ServerStart(e) == IF e.masa THEN "running" ELSE "crashed"

\* an awaited step of connect_to_server raises: an Exception goes to main's
\* except clause, a KeyboardInterrupt past it to the finally clause
ConnectFails(step) ==
  /\ \E e \in {step, "KeyboardInterrupt"} :
       /\ exc' = e
       /\ main' = IF e = "KeyboardInterrupt" THEN "finally" ELSE "except"
  /\ UNCHANGED <<env, function_declarations, exit_stack, released, cleanups,
                 server, error_box>>
  /\ MainFrame

\* enter_async_context(stdio_client(server_params)): the server is launched
ConnectStdio ==
  /\ main = "connect"
  /\ \/ /\ exit_stack' = Append(exit_stack, "stdio_client")
        /\ server' = ServerStart(env)
        /\ main' = "connect_session"
        /\ UNCHANGED <<env, function_declarations, released, cleanups, error_box, exc>>
        /\ MainFrame
     \/ ConnectFails("stdio_client failed")
  /\ UNCHANGED schemaVars

\* enter_async_context(ClientSession(self.stdio, self.write))
ConnectSession ==
  /\ main = "connect_session"
  /\ \/ /\ exit_stack' = Append(exit_stack, "ClientSession")
        /\ main' = "initialize"
        /\ UNCHANGED <<env, function_declarations, released, cleanups,
                       server, error_box, exc>>
        /\ MainFrame
     \/ ConnectFails("ClientSession failed")
  /\ UNCHANGED schemaVars

\* await self.session.initialize()
Initialize ==
  /\ main = "initialize"
  /\ \/ /\ server = "running"
        /\ main' = "list_tools"
        /\ UNCHANGED <<env, function_declarations, exit_stack, released,
                       cleanups, server, error_box, exc>>
        /\ MainFrame
     \/ ConnectFails("initialize failed")
  /\ UNCHANGED schemaVars

\* list_tools and the connection box; connect_to_server returns without
\* assigning anything to the client
ListTools ==
  /\ main = "list_tools"
  /\ \/ /\ main' = "chat_loop"
        /\ UNCHANGED <<env, function_declarations, exit_stack, released,
                       cleanups, server, error_box, exc>>
        /\ MainFrame
     \/ ConnectFails("list_tools failed")
  /\ UNCHANGED schemaVars

\* chat_loop prints its banner and waits for input
ChatLoop ==
  /\ main = "chat_loop"
  /\ main' = "chat"
  /\ UNCHANGED <<env, function_declarations, exit_stack, released, cleanups,
                 server, error_box, exc>>
  /\ MainFrame
  /\ UNCHANGED schemaVars

MainExceptThenExit ==
  /\ main = "except"
  /\ error_box' = "Error"
  /\ main' = "exited"
  /\ UNCHANGED <<env, function_declarations, exit_stack, released, cleanups,
                 server, exc>>
  /\ MainFrame
  /\ UNCHANGED schemaVars

\* except Exception as e: print_box(str(e), ...)
MainExcept ==
  /\ main = "except"
  /\ error_box' = "Error"
  /\ main' = "finally"
  /\ UNCHANGED <<env, function_declarations, exit_stack, released, cleanups,
                 server, exc>>
  /\ MainFrame
  /\ UNCHANGED schemaVars

\* finally: await client.cleanup(), which awaits self.exit_stack.aclose()
Cleanup ==
  /\ main \in {"after_chat", "finally"}
  /\ cleanups' = cleanups + 1
  /\ main' = "aclose"
  /\ UNCHANGED <<env, function_declarations, exit_stack, released, server, error_box, exc>>
  /\ MainFrame
  /\ UNCHANGED schemaVars

\* what leaving a context does to the server process
ServerAfterExit(context, srv) ==
  IF context = "stdio_client" /\ srv = "running" THEN "closed" ELSE srv

\* the context aclose() exits next: the one entered last
NextToExitFirstEntered(stack) == 1
NextToExit(stack) == Len(stack)

\* aclose() exits one entered context
ExitContext ==
  /\ main = "aclose"
  /\ exit_stack # <<>>
  /\ LET i == NextToExit(exit_stack) IN
       /\ released' = Append(released, exit_stack[i])
       /\ exit_stack' = [j \in 1..(Len(exit_stack) - 1) |->
                          IF j < i THEN exit_stack[j] ELSE exit_stack[j + 1]]
       /\ server' = ServerAfterExit(exit_stack[i], server)
  /\ UNCHANGED <<env, main, function_declarations, cleanups, error_box, exc>>
  /\ MainFrame
  /\ UNCHANGED schemaVars

\* main returns, or the KeyboardInterrupt leaves it
MainEnds ==
  /\ main = "aclose"
  /\ exit_stack = <<>>
  /\ main' = IF exc = "KeyboardInterrupt" THEN "interrupted" ELSE "exited"
  /\ UNCHANGED <<env, function_declarations, exit_stack, released, cleanups,
                 server, error_box, exc>>
  /\ MainFrame
  /\ UNCHANGED schemaVars

(* ------------- clean_schema, convert_mcp_tools_to_gemini -------------- *)
\* A JSON value that is a dict carries: whether it has a "title" key, its
\* "properties" (an ordered dict: a sequence of name and value), and its
\* "items" (absent, or one value). Anything else is not a dict.
NotADict == [dict |-> FALSE, title |-> FALSE, properties |-> <<>>, items |-> <<>>]
ParamNames == {"title", "a"}
Leaves ==
  {NotADict}
    \cup {[dict |-> TRUE, title |-> t, properties |-> <<>>, items |-> <<>>] :
            t \in BOOLEAN}

\* the "properties" dicts over the values sub: empty, one parameter, or the
\* two parameters with values that nest no further
PropertyDicts(sub) ==
  {<<>>}
    \cup {<<[name |-> n, value |-> s]>> : n \in ParamNames, s \in sub}
    \cup {<<[name |-> "title", value |-> s1], [name |-> "a", value |-> s2]>> :
            s1 \in Leaves, s2 \in Leaves}

RECURSIVE Schemas(_)
\* the JSON values nested at most d deep
Schemas(d) ==
  IF d = 0 THEN Leaves
  ELSE LET sub == Schemas(d - 1) IN
    {NotADict}
      \cup {[dict |-> TRUE, title |-> t, properties |-> p, items |-> i] :
              t \in BOOLEAN, p \in PropertyDicts(sub),
              i \in {<<>>} \cup {<<s>> : s \in sub}}

RECURSIVE clean_schema(_)
\* pops "title" from a dict, then cleans each value of its "properties"
clean_schema(schema) ==
  IF ~schema.dict THEN schema
  ELSE [schema EXCEPT
          !.title = FALSE,
          !.properties =
            [i \in 1..Len(schema.properties) |->
               [name |-> schema.properties[i].name,
                value |-> clean_schema(schema.properties[i].value)]]]

\* one FunctionDeclaration in one Tool per listed tool
convert_mcp_tools_to_gemini(tools) ==
  [k \in 1..Len(tools) |->
     [function_declarations |->
        <<[name |-> tools[k].name,
           parameters |-> clean_schema(tools[k].inputSchema)]>>]]

\* clean_schema works in place: the listed tool's own schema is the cleaned one
CleanedInPlace(tools) ==
  [k \in 1..Len(tools) |->
     [name |-> tools[k].name, inputSchema |-> clean_schema(tools[k].inputSchema)]]

SchemaIdle ==
  /\ mcp_tools = <<>> /\ gemini_tools = <<>> /\ listed = <<>>
  /\ convert = "idle"

\* gemini_tools = convert_mcp_tools_to_gemini(mcp_tools)
ConvertTools ==
  /\ convert = "called"
  /\ gemini_tools' = convert_mcp_tools_to_gemini(mcp_tools)
  /\ mcp_tools' = CleanedInPlace(mcp_tools)
  /\ convert' = "returned"
  /\ UNCHANGED listed
  /\ UNCHANGED <<clientVars, queryVars, toolVars>>

(* --------------------------- specifications --------------------------- *)
\* the program as started from the command line
Init ==
  /\ env \in [argv : BOOLEAN, gemini : BOOLEAN, masa : BOOLEAN]
  /\ main = "start"
  /\ function_declarations = Unset
  /\ exit_stack = <<>>
  /\ released = <<>>
  /\ cleanups = 0
  /\ server = "not started"
  /\ error_box = ""
  /\ exc = ""
  /\ QueryIdle
  /\ ToolIdle
  /\ SchemaIdle

\* process_query never gets past its first generate_content call here:
\* nothing has assigned function_declarations
Next ==
  \/ MainUsage \/ Construct
  \/ ConnectStdio \/ ConnectSession \/ Initialize \/ ListTools \/ ChatLoop
  \/ ReadQuery \/ ReadQuit \/ ReadInterrupt \/ ReadEOF
  \/ GenerateContentAttributeError
  \/ MainExcept \/ Cleanup \/ ExitContext \/ MainEnds

Spec == Init /\ [][Next]_vars

\* a connected client inside chat_loop; function_declarations is an input
InitQuery ==
  /\ env = [argv |-> TRUE, gemini |-> TRUE, masa |-> TRUE]
  /\ main = "chat"
  /\ function_declarations \in {Unset, Declared}
  /\ exit_stack = Connected
  /\ released = <<>>
  /\ cleanups = 0
  /\ server = "running"
  /\ error_box = ""
  /\ exc = ""
  /\ QueryIdle
  /\ ToolIdle
  /\ SchemaIdle

NextQuery ==
  \/ ReadQuery \/ ReadQuit \/ ReadInterrupt \/ ReadEOF
  \/ GenerateContentAttributeError \/ GenerateContentRaises
  \/ GenerateContentCalls \/ GenerateContentFinal
  \/ CallTool \/ CallToolReturns \/ CallToolRaises
  \/ ToolBegin \/ CreateJob \/ PollStatus \/ Sleep \/ FetchResults
  \/ AnalyzeSentiment

SpecQuery == InitQuery /\ [][NextQuery]_vars

\* the client awaits a call_tool it issued for the first call of a query
InitTool ==
  /\ env = [argv |-> TRUE, gemini |-> TRUE, masa |-> TRUE]
  /\ main = "in_query"
  /\ function_declarations = Declared
  /\ exit_stack = Connected
  /\ released = <<>>
  /\ cleanups = 0
  /\ server = "running"
  /\ error_box = ""
  /\ exc = ""
  /\ pq = "in_call" /\ query = "btc"
  /\ conversation = StartConversation(<<>>, query)
  /\ final_text = <<>>
  /\ \E names \in CryptoArgs :
       /\ function_calls = <<[name |-> AnalyzeTool, args |-> names]>>
       /\ crypto_names = names
  /\ new_parts = <<[function_call |-> function_calls[1], text |-> NoText]>>
  /\ idx = 1 /\ requests = 1 /\ emitted = 1 /\ response = <<>>
  /\ modelCalls = function_calls /\ modelTexts = <<>> /\ outcomes = <<>>
  /\ issued = 1 /\ left_behind = 0
  /\ tool = "begin" /\ job_id = "" /\ attempt = 0
  /\ current_status = "" /\ tweets = <<>> /\ tool_return = ""
  /\ io = <<>> /\ statusLog = <<>>
  /\ SchemaIdle

NextTool ==
  \/ ToolBegin \/ CreateJob \/ PollStatus \/ Sleep \/ FetchResults
  \/ AnalyzeSentiment

SpecTool == InitTool /\ [][NextTool]_vars

\* the conversion called on one listed tool; the rest of the program is idle
InitSchema ==
  /\ env = [argv |-> TRUE, gemini |-> TRUE, masa |-> TRUE]
  /\ main = "list_tools"
  /\ function_declarations = Unset
  /\ exit_stack = Connected
  /\ released = <<>>
  /\ cleanups = 0
  /\ server = "running"
  /\ error_box = ""
  /\ exc = ""
  /\ QueryIdle
  /\ ToolIdle
  /\ \E s \in Schemas(SchemaDepth) :
       /\ s.dict
       /\ mcp_tools = <<[name |-> AnalyzeTool, inputSchema |-> s]>>
  /\ listed = mcp_tools
  /\ gemini_tools = <<>>
  /\ convert = "called"

NextSchema == ConvertTools

SpecSchema == InitSchema /\ [][NextSchema]_vars

(* ------------------------------- claims ------------------------------- *)
IsCallPart(item) == "function_call" \in DOMAIN item
IsToolTurn(item) == "function_response" \in DOMAIN item
Polls == Cardinality({i \in 1..Len(io) : io[i].op = "status"})
Sleeps == Cardinality({i \in 1..Len(io) : io[i].op = "sleep"})
TimedOut == "Error: Twitter search timed out"
JobFailed == "Search job failed"

\* C1: every function-call part in the conversation is directly followed by
\* exactly one tool turn with the same tool name, no tool turn stands without
\* its call part, and whenever a model request is about to be issued (or the
\* run has ended) the calls the model has emitted so far are all there, paired,
\* in the order emitted.
C1_CallsPaired ==
  /\ \A i \in 1..Len(conversation) :
       /\ IsCallPart(conversation[i]) =>
            /\ i < Len(conversation)
            /\ IsToolTurn(conversation[i + 1])
            /\ conversation[i + 1].name = conversation[i].function_call.name
            /\ i + 2 <= Len(conversation) => ~IsToolTurn(conversation[i + 2])
       /\ IsToolTurn(conversation[i]) => i > 1 /\ IsCallPart(conversation[i - 1])
  /\ pq \in {"request", "returned", "raised"} =>
       /\ Len(conversation) = 1 + 2 * Len(modelCalls)
       /\ \A k \in 1..Len(modelCalls) :
            conversation[2 * k].function_call = modelCalls[k]

\* two calls to different tools came in one response, both pairs are in, and
\* the next request is due
C1_Witness ==
  /\ pq = "request"
  /\ requests = 1
  /\ Len(conversation) = 5
  /\ conversation[3].name # conversation[5].name

\* r is s without its leading and trailing whitespace
IsTrimOf(r, s) ==
  /\ r # <<>> => r[1] \notin Whitespace /\ r[Len(r)] \notin Whitespace
  /\ \E i \in 1..(Len(s) + 1), j \in 0..Len(s) :
       /\ r = SubSeq(s, i, j)
       /\ \A k \in 1..Len(s) : (k < i \/ k > j) => s[k] \in Whitespace

\* C2: process_query returns only on a response without function calls; by
\* then every call of the earlier responses has been dispatched; the texts of
\* all responses are kept in the order received, and the value returned is
\* their newline-join, trimmed.
C2_ReturnsAccumulatedText ==
  /\ final_text = modelTexts
  /\ pq = "returned" =>
       /\ function_calls = <<>>
       /\ requests >= 1
       /\ Len(outcomes) = Len(modelCalls)
       /\ IsTrimOf(response, Join(<<NL>>, modelTexts))

\* a response brought two calls and a text, the run went on to a second
\* request and returned the text kept from the first response
C2_Witness ==
  /\ pq = "returned"
  /\ requests = 2
  /\ Len(modelCalls) = 2
  /\ emitted = 3
  /\ response = <<"b">>

\* C3: the tool turn of a call carries {error: message} when call_tool raised
\* and {result: content} when it returned; every emitted call gets its turn
\* whatever happened to the calls before it; process_query raises only from
\* the model request, never from a tool call.
C3_ToolErrorsFedBack ==
  /\ pq # "idle" => Len(conversation) = 1 + 2 * Len(outcomes)
  /\ \A k \in 1..Len(outcomes) :
       conversation[2 * k + 1].function_response =
         [key |-> IF outcomes[k].raised THEN "error" ELSE "result",
          value |-> outcomes[k].value]
  /\ pq \in {"request", "returned", "raised"} => Len(outcomes) = Len(modelCalls)
  /\ pq = "raised" => exc \in {"AttributeError", "APIError"}

\* the first of two calls of one response raised, the second was still
\* dispatched and returned, and the run went on to return
C3_Witness ==
  /\ pq = "returned"
  /\ requests = 2
  /\ Len(outcomes) = 2
  /\ outcomes[1].raised
  /\ ~outcomes[2].raised

\* C4: the loop has a maximum round count: the number of model requests of one
\* query stays within a cap (here: within the number of rounds the model can
\* force with the calls it is allowed), the run ending with ToolLoopExceeded
\* instead of issuing one more request.
C4_RoundCap == requests <= CallBudget

\* C5: polling never takes more than max_attempts polls; the statuses pending,
\* pending, done end it with success after exactly 3 polls and 2 sleeps;
\* max_attempts pending statuses end it with the timeout error after exactly
\* max_attempts polls, and the timeout error has no other cause.
C5_PollCounts ==
  /\ Polls <= max_attempts
  /\ statusLog = <<"Pending", "Pending", "Done">> =>
       /\ Polls = 3 /\ Sleeps = 2
       /\ tool \in {"fetch", "analyze", "returned"}
       /\ tool_return \notin {TimedOut, JobFailed, "Status check failed"}
  /\ (tool = "returned" /\ statusLog = [i \in 1..max_attempts |-> "Pending"]) =>
       tool_return = TimedOut /\ Polls = max_attempts
  /\ tool_return = TimedOut =>
       Polls = max_attempts /\ statusLog = [i \in 1..max_attempts |-> "Pending"]

\* pending, pending, done: the third poll ended polling, the fetch is next
C5_Witness ==
  /\ statusLog = <<"Pending", "Pending", "Done">>
  /\ tool = "fetch"
  /\ Polls = 3

\* C6: a poll that observes failed or error ends the tool with the job-failed
\* error at once: that poll is the last request of the invocation (no poll, no
\* result fetch, no analysis after it), so pending, failed makes 2 polls.
C6_FailedEndsPolling ==
  current_status \in {"failed", "error"} =>
    /\ tool = "returned"
    /\ tool_return = JobFailed
    /\ io[Len(io)].op = "status"
    /\ Polls = Len(statusLog)
    /\ Sleeps = Polls - 1
    /\ \A i \in 1..Len(io) : io[i].op \notin {"result", "analysis"}

\* pending, then failed: two polls, one sleep, the tool has returned
C6_Witness ==
  /\ current_status = "failed"
  /\ tool = "returned"
  /\ Polls = 2
  /\ Sleeps = 1

\* the classes the claim gives the status words
ClaimedClass(status) ==
  IF status \in {"done", "completed"} THEN "Done"
  ELSE IF status \in {"failed", "error"} THEN "Failed"
  ELSE "Pending"

\* C7: a poll answered done or completed is classified Done and ends polling
\* (the fetch comes next), failed or error is classified Failed, every other
\* status pending.
C7_StatusClasses ==
  statusLog # <<>> =>
    /\ statusLog[Len(statusLog)] = ClaimedClass(current_status)
    /\ current_status \in {"done", "completed"} => tool \notin {"sleep", "poll"}

RemoteFailures ==
  {"Error creating search job", "Status check failed", JobFailed, TimedOut}

\* C8: when the sentiment tool failed remotely (creation rejected, status poll
\* failed, job failed, polling exhausted), the tool turn appended for the call
\* carries an {error: message} payload.
C8_RemoteFailureIsErrorPayload ==
  \A i \in 1..Len(conversation) :
    (IsToolTurn(conversation[i])
       /\ conversation[i].function_response.value \in RemoteFailures)
      => conversation[i].function_response.key = "error"

\* C9: cleanup() runs at most once; once main has ended after it began to
\* connect, cleanup has run exactly once and every entered context is exited;
\* after cleanup has begun the chat loop is over (no input is read and no query
\* is processed).
C9_CleanupOnce ==
  /\ cleanups <= 1
  /\ (main \in {"exited", "interrupted"} /\ exc # "SystemExit") =>
       cleanups = 1 /\ exit_stack = <<>>
  /\ cleanups = 1 => main \in {"aclose", "exited", "interrupted"}
  /\ main \in {"chat_loop", "chat", "in_query", "except"} => cleanups = 0

\* the user interrupted the input wait; main has ended and cleanup ran once
C9_Witness ==
  /\ main = "exited"
  /\ error_box = "Warning"
  /\ cleanups = 1
  /\ released = <<"ClientSession", "stdio_client">>

\* C10: once connect_to_server has returned, the declarations translated from
\* the listed tools are stored, so every model request is made with them.
C10_DeclarationsStored ==
  main \in {"chat_loop", "chat", "in_query"} => function_declarations # Unset

RECURSIVE HasTitle(_)
\* a "title" key of a dict somewhere in the value (a parameter named title
\* is a name in "properties", not a key of a dict)
HasTitle(s) ==
  /\ s.dict
  /\ \/ s.title
     \/ \E i \in 1..Len(s.properties) : HasTitle(s.properties[i].value)
     \/ \E i \in 1..Len(s.items) : HasTitle(s.items[i])

\* a "title" key at some depth inside the "properties" of s
HasTitleWithinProperties(s) ==
  \E i \in 1..Len(s.properties) : HasTitle(s.properties[i].value)

RECURSIVE SameParameters(_, _)
\* r has the parameters of s, by name and in order, at every depth
SameParameters(r, s) ==
  /\ r.dict = s.dict
  /\ Len(r.properties) = Len(s.properties)
  /\ \A i \in 1..Len(s.properties) :
       /\ r.properties[i].name = s.properties[i].name
       /\ SameParameters(r.properties[i].value, s.properties[i].value)
  /\ Len(r.items) = Len(s.items)
  /\ \A i \in 1..Len(s.items) : SameParameters(r.items[i], s.items[i])

\* C11: when the input schema of a listed tool has a title key at some depth
\* within its properties, the parameters of the declaration made from it have
\* no title key anywhere, and every parameter of the input, one named title
\* included, is still there.
C11_NoTitleLeft ==
  convert = "returned" =>
    \A k \in 1..Len(listed) :
      HasTitleWithinProperties(listed[k].inputSchema) =>
        LET parameters == gemini_tools[k].function_declarations[1].parameters IN
        /\ ~HasTitle(parameters)
        /\ SameParameters(parameters, listed[k].inputSchema)

\* C12: without the model API key the client raises ValueError from its
\* constructor: nothing is connected, no server is launched, no query is read,
\* and the error is never handled (no error box, no cleanup, main does not go
\* on). Without the remote-service key the server process dies while loading:
\* it never runs, so no initialize succeeds, no tool is listed and none called.
C12_MissingCredentialFatal ==
  /\ ~env.gemini =>
       /\ exit_stack = <<>> /\ released = <<>> /\ server = "not started"
       /\ pq = "idle" /\ query = "" /\ cleanups = 0
       /\ main \in {"start", "crashed", "exited"}
  /\ (~env.gemini /\ env.argv /\ main # "start") =>
       main = "crashed" /\ exc = "ValueError" /\ error_box = ""
  /\ exc = "ValueError" => main = "crashed" /\ ~env.gemini
  /\ ~env.masa =>
       /\ server \in {"not started", "crashed"}
       /\ main \notin {"list_tools", "chat_loop", "chat", "in_query"}
       /\ pq = "idle" /\ tool = "idle"

\* the client was started with a server script and without the model API key
C12_Witness ==
  /\ env.argv /\ ~env.gemini
  /\ main = "crashed"
  /\ exc = "ValueError"

\* C13: while a call_tool is in flight it is the only one: every call issued
\* before it has ended and has its two turns in the conversation, and it is the
\* next call in the order the model emitted them; outside a call nothing is in
\* flight and the server runs no tool; the result turns stand in the order of
\* the calls.
C13_SequentialDispatch ==
  /\ pq = "in_call" =>
       /\ issued = Len(outcomes) + 1
       /\ Len(conversation) = 1 + 2 * (issued - 1)
       /\ function_calls[idx] = modelCalls[issued]
  /\ pq # "in_call" => issued = Len(outcomes) /\ tool = "idle"
  /\ \A k \in 1..Len(outcomes) :
       /\ conversation[2 * k].function_call = modelCalls[k]
       /\ conversation[2 * k + 1].name = modelCalls[k].name

\* the second of two calls of one response is in flight, the first has its
\* result turn
C13_Witness ==
  /\ pq = "in_call"
  /\ idx = 2
  /\ issued = 2
  /\ Len(conversation) = 3
  /\ IsToolTurn(conversation[3])
  /\ function_calls[1] # function_calls[2]

\* polling is over: the loop was left by break, by return or by exhaustion
PollingEnded == tool \in {"fetch", "analyze", "returned"} /\ Polls >= 1

\* C14: once polling has ended, every sleep of the invocation was directly
\* followed by another status poll, so there is one sleep less than polls,
\* also when polling ended by exhausting max_attempts.
C14_SleepsBetweenPolls ==
  PollingEnded =>
    /\ Sleeps = Polls - 1
    /\ \A i \in 1..Len(io) :
         io[i].op = "sleep" => i < Len(io) /\ io[i + 1].op = "status"

ConnectErrors ==
  {"stdio_client failed", "ClientSession failed", "initialize failed",
   "list_tools failed"}
Reverse(s) == [i \in 1..Len(s) |-> s[Len(s) + 1 - i]]
IsPrefix(s, whole) == Len(s) <= Len(whole) /\ s = SubSeq(whole, 1, Len(s))

\* C15: when a step of the connection setup has failed, the contexts entered
\* so far are all exited by the time the error is in the hands of main's
\* handler (and so when the error box is printed and when main ends); contexts
\* are exited in the reverse of the order they were entered, and only contexts
\* that were entered are exited.
C15_ReleasedBeforeErrorPropagates ==
  /\ (exc \in ConnectErrors /\ main \in {"except", "finally", "exited"}) =>
       exit_stack = <<>>
  /\ IsPrefix(exit_stack \o Reverse(released), Connected)

IsUserTurn(item) == "role" \in DOMAIN item /\ item.role = "user"

\* C16: whatever was processed before, the conversation of the query being
\* processed begins with the one user turn that holds this query's text and
\* holds besides it only the call parts and tool turns of this query's own
\* calls; the text buffer holds the texts the model sent for this query and
\* nothing else, and the value returned is made of them alone.
C16_FreshConversation ==
  /\ pq \in {"request", "dispatch", "in_call"} =>
       /\ conversation[1] = UserContent(query)
       /\ \A i \in 2..Len(conversation) : ~IsUserTurn(conversation[i])
       /\ Len(conversation) = 1 + 2 * Len(outcomes)
       /\ final_text = modelTexts
  /\ pq = "returned" =>
       /\ Len(conversation) = 1 + 2 * Len(outcomes)
       /\ \A i \in 2..Len(conversation) : ~IsUserTurn(conversation[i])
       /\ response = FinalAnswer(modelTexts)

\* process_query has been entered for a query typed after one that had left
\* five turns and a text: it starts from its own user turn and no text
C16_Witness ==
  /\ left_behind = 6
  /\ pq = "request"
  /\ requests = 0
  /\ conversation = <<UserContent(query)>>
  /\ final_text = <<>>

\* the requests of the invocation, sleeps left out
HttpOps ==
  LET pick[i \in 0..Len(io)] ==
        IF i = 0 THEN <<>>
        ELSE IF io[i].op = "sleep" THEN pick[i - 1]
        ELSE Append(pick[i - 1], io[i])
  IN pick[Len(io)]
Count(op) == Cardinality({i \in 1..Len(io) : io[i].op = op})
Stage(op) ==
  CASE op = "create" -> 1 [] op = "status" -> 2 [] op = "result" -> 3
    [] op = "analysis" -> 4

\* C17: the requests of one invocation come in the order create, status polls,
\* result fetch, analysis; there is at most one create, one fetch and one
\* analysis; every request after the create carries the job id the creation
\* returned; the fetch directly follows a poll that observed the completed
\* status; the analysis directly follows a fetch that returned tweets.
C17_RequestOrder ==
  LET ops == HttpOps IN
  /\ \A i \in 1..Len(ops) : \A j \in i..Len(ops) :
       Stage(ops[i].op) <= Stage(ops[j].op)
  /\ Count("create") <= 1 /\ Count("result") <= 1 /\ Count("analysis") <= 1
  /\ ops # <<>> => ops[1].op = "create"
  /\ \A i \in 2..Len(ops) : ops[i].job # "" /\ ops[i].job = job_id
  /\ \A i \in 1..Len(ops) :
       /\ ops[i].op = "result" =>
            /\ ops[i - 1].op = "status"
            /\ current_status = "completed"
            /\ statusLog[Len(statusLog)] = "Done"
       /\ ops[i].op = "analysis" =>
            /\ ops[i - 1].op = "result"
            /\ tweets # <<>>

\* create, a pending poll, a completed poll, the fetch and the analysis
C17_Witness ==
  /\ tool = "returned"
  /\ [i \in 1..Len(io) |-> io[i].op] =
       <<"create", "status", "sleep", "status", "result", "analysis">>
  /\ tool_return = "Overall sentiment: positive"

\* crypto_names holds no name: nothing but commas and blanks
NoCryptoName(names) == \A i \in 1..Len(names) : names[i] \in {",", " "}

\* C18: an invocation whose crypto_names holds no name returns the error
\* asking for at least one cryptocurrency name and issues no request.
C18_NoNamesIsError ==
  (NoCryptoName(crypto_names) /\ tool \notin {"idle", "begin"}) =>
    /\ tool = "returned"
    /\ tool_return = "Error: Please provide at least one cryptocurrency name"
    /\ io = <<>>

====
